---- MODULE Spec2Model ----
(***************************************************************************)
(* Model of rpack: HeightRectPacker::pack (src/src/height_rect_pack.rs),   *)
(* RectanglePacker::check_sizes (src/src/rectangle_packer.rs), and the     *)
(* Size / Rectangle value types (src/src/size.rs, src/src/rectangle.rs).   *)
(*                                                                         *)
(* One call of pack is a run of the state machine: the caller's arguments  *)
(* are drawn in Init, Begin is the prelude of pack (effective container,   *)
(* check_sizes, sort, cursor initialisation), PlaceNext is one iteration   *)
(* of the placement loop and Finish is the final Ok(..).                   *)
(*                                                                         *)
(* usize arithmetic: Rust panics on overflow when overflow checks are on   *)
(* (the debug profile) and wraps modulo 2^w when they are off (release).   *)
(* Both builds are modelled (variable build).  TLC integers are 32 bits,   *)
(* so the model takes the narrowest usize Rust has, 16 bits; every value   *)
(* of the model other than usize::MAX and wrapped differences is far below *)
(* it, so the width does not change any comparison.                        *)
(*                                                                         *)
(* Rectangle::intersects is a function of two rectangles: SpecRect draws   *)
(* the two in its initial state and calls it in both directions.           *)
(***************************************************************************)
EXTENDS Integers, Sequences, FiniteSets, TLC

\* ---------------------------------------------------------------- bounds
MaxLen == 2        \* longest input list
MaxW == 2          \* largest input width
MaxH == 2          \* largest input height
MaxCW == 3         \* largest configured max_size.width
MaxCH == 2         \* largest configured max_size.height
MaxPad == 1        \* largest rectangle_padding / border_padding
SimpleMaxLen == 2  \* longest input list of SpecDefault
SimpleMaxW == 4    \* largest input width of SpecDefault
SimpleMaxH == 2    \* largest input height of SpecDefault
RectMaxPos == 2    \* largest x / y of a rectangle of SpecRect
RectMaxDim == 2    \* largest width / height of a rectangle of SpecRect

\* ------------------------------------------------------- usize arithmetic
USIZE_BITS == 16
USIZE_MAX == (2 ^ USIZE_BITS) - 1

\* A mathematical result that a usize cannot hold.
Overflows(n) == n < 0 \/ n > USIZE_MAX

\* The value a usize holds after wrapping arithmetic.
Wrap(n) == n % (USIZE_MAX + 1)

Max(a, b) == IF a >= b THEN a ELSE b

\* ------------------------------------------------------------ value types
Size(w, h) == [width |-> w, height |-> h]

Rectangle(px, py, w, h) == [x |-> px, y |-> py, width |-> w, height |-> h]

\* from_size with the two dimensions exchanged.
from_size_swapped(px, py, size) ==
    [x |-> px, y |-> py, width |-> size.height, height |-> size.width]

from_size(px, py, size) ==
    [x |-> px, y |-> py, width |-> size.width, height |-> size.height]

\* Option<Size>: None is the empty sequence, Some(s) is <<s>>.
None == <<>>
Some(s) == <<s>>
IsSome(o) == Len(o) = 1
Unwrap(o) == o[1]

\* intersects with the bounds taken inclusive, as contains takes them.
intersects_closed(self, other) ==
    /\ self.x <= other.x + other.width
    /\ self.x + self.width >= other.x
    /\ self.y <= other.y + other.height
    /\ self.y + self.height >= other.y

intersects(self, other) ==
    /\ self.x < other.x + other.width
    /\ self.x + self.width > other.x
    /\ self.y < other.y + other.height
    /\ self.y + self.height > other.y

\* Size::cmp: height first, then width.
cmp(self, other) ==
    IF self.height < other.height THEN "Less"
    ELSE IF self.height > other.height THEN "Greater"
    ELSE IF self.width < other.width THEN "Less"
    ELSE IF self.width > other.width THEN "Greater"
    ELSE "Equal"

\* Insert e into the ascending sequence s, after the elements not greater.
RECURSIVE InsertSorted(_, _)
InsertSorted(s, e) ==
    IF s = <<>> THEN <<e>>
    ELSE IF cmp(e, Head(s)) = "Less" THEN <<e>> \o s
    ELSE <<Head(s)>> \o InsertSorted(Tail(s), e)

\* The list left in the caller's order.
sort_skipped(s) == s

\* sizes.sort_unstable(): ascending by Size::cmp.  Elements that compare
\* Equal are identical values, so the result does not depend on stability.
RECURSIVE sort_unstable(_)
sort_unstable(s) ==
    IF s = <<>> THEN <<>>
    ELSE InsertSorted(sort_unstable(Tail(s)), Head(s))

RECURSIVE SumWidths(_)
SumWidths(s) == IF s = <<>> THEN 0 ELSE Head(s).width + SumWidths(Tail(s))

RECURSIVE MaxWidthOf(_)
MaxWidthOf(s) ==
    IF Len(s) = 1 THEN Head(s).width
    ELSE Max(Head(s).width, MaxWidthOf(Tail(s)))

\* floor(sqrt(n / t)) for t > 0: the largest k with k*k*t <= n.
FloorSqrtRatio(n, t) ==
    CHOOSE k \in 0..n : k * k * t <= n /\ (k + 1) * (k + 1) * t > n

\* --------------------------------------------------------- configuration
RectanglePackerConfig(ms, rp, bp) ==
    [max_size |-> ms, rectangle_padding |-> rp, border_padding |-> bp]

DefaultConfig == RectanglePackerConfig(None, 0, 0)

RectanglePackingResult(rects, size) == [rectangles |-> rects, size |-> size]

NoResult == RectanglePackingResult(<<>>, Size(0, 0))

\* ------------------------------------------------------------------ state
VARIABLES
    sizes,          \* the caller's list of sizes
    config,         \* the caller's RectanglePackerConfig
    build,          \* "debug" (overflow checks on) or "release" (wrapping)
    pc,             \* "start", "loop", "ok", "err", "panic"
    max_size,       \* pack's local max_size (effective container)
    sorted,         \* pack's local sorted copy of sizes
    next,           \* index in sorted of the size the loop takes next
    x, y,           \* cursor
    largets_height, \* largest height of the current row
    rectangles,     \* pack's local list of placed rectangles
    message,        \* which error message was built: "none", "too_large", "no_fit"
    result,         \* the RectanglePackingResult returned (in Ok or inside Err)
    rect1, rect2,   \* the two rectangles of a call of intersects
    hit,            \* what rect1.intersects(&rect2) returned, None before the call
    hit_rev         \* what rect2.intersects(&rect1) returned, None before the call

packVars == <<sizes, config, build, pc, max_size, sorted, next, x, y,
              largets_height, rectangles, message, result>>

rectVars == <<rect1, rect2, hit, hit_rev>>

vars == <<packVars, rectVars>>

RECURSIVE SeqsUpTo(_, _)
SeqsUpTo(S, n) ==
    IF n = 0 THEN {<<>>}
    ELSE LET shorter == SeqsUpTo(S, n - 1)
         IN shorter \cup {Append(s, e) : s \in {t \in shorter : Len(t) = n - 1}, e \in S}

Sizes == {Size(w, h) : w \in 0..MaxW, h \in 0..MaxH}
SimpleSizes == {Size(w, h) : w \in 0..SimpleMaxW, h \in 0..SimpleMaxH}
MaxSizes == {None} \cup {Some(Size(w, h)) : w \in 0..MaxCW, h \in 0..MaxCH}
Configs == {RectanglePackerConfig(ms, rp, bp) :
                ms \in MaxSizes, rp \in 0..MaxPad, bp \in 0..MaxPad}
Builds == {"debug", "release"}

InitLocals ==
    /\ pc = "start"
    /\ max_size = Size(0, 0)
    /\ sorted = <<>>
    /\ next = 1
    /\ x = 0
    /\ y = 0
    /\ largets_height = 0
    /\ rectangles = <<>>
    /\ message = "none"
    /\ result = NoResult

\* No call of intersects is under way.
NoRectangles ==
    /\ rect1 = Rectangle(0, 0, 0, 0)
    /\ rect2 = Rectangle(0, 0, 0, 0)
    /\ hit = None
    /\ hit_rev = None

Init ==
    /\ sizes \in SeqsUpTo(Sizes, MaxLen)
    /\ config \in Configs
    /\ build \in Builds
    /\ InitLocals
    /\ NoRectangles

\* pack called with the default configuration.
InitDefault ==
    /\ sizes \in SeqsUpTo(SimpleSizes, SimpleMaxLen)
    /\ config = DefaultConfig
    /\ build \in Builds
    /\ InitLocals
    /\ NoRectangles

\* ---------------------------------------------------------------- prelude
\* The root taken as if over the number of rectangles alone.
SqrtOfCount(n, total_width) == FloorSqrtRatio(n, 1)

\* Line 26, (sizes.len() as f64 / total_width as f64).sqrt() as usize: a
\* zero total width gives +inf, which the cast saturates to usize::MAX.
SqrtOfRatio(n, total_width) ==
    IF total_width = 0 THEN USIZE_MAX ELSE FloorSqrtRatio(n, total_width)

\* Lines 10-35: the effective container.  [panic, value].
\* max().unwrap() panics on an empty list in every build; with a zero
\* total width the root is usize::MAX and the + 1 overflows.
ResolveMaxSize(szs, cfg, bld) ==
    IF IsSome(cfg.max_size) THEN [panic |-> FALSE, value |-> Unwrap(cfg.max_size)]
    ELSE IF szs = <<>> THEN [panic |-> TRUE, value |-> Size(0, 0)]
    ELSE
      LET max_width == MaxWidthOf(szs) + 2 * cfg.rectangle_padding
          total_width == SumWidths(szs)
          root == SqrtOfRatio(Len(szs), total_width)
          average_num_rectangles_per_row == Wrap(root + 1)
          row_width == Max((total_width \div Len(szs)) * average_num_rectangles_per_row,
                           max_width) + 2 * cfg.border_padding
      IN [panic |-> Overflows(root + 1) /\ bld = "debug",
          value |-> Size(row_width, USIZE_MAX)]

\* check_sizes.  [panic, err]: err is TRUE when the Err(..) is returned.
check_sizes(szs, cfg, bld) ==
    IF ~IsSome(cfg.max_size) THEN [panic |-> FALSE, err |-> FALSE]
    ELSE
      LET pad == 2 * (cfg.border_padding + cfg.rectangle_padding)
          rawW == Unwrap(cfg.max_size).width - pad
          rawH == Unwrap(cfg.max_size).height - pad
          limit == Size(Wrap(rawW), Wrap(rawH))
      IN [panic |-> (Overflows(rawW) \/ Overflows(rawH)) /\ bld = "debug",
          err |-> \E i \in 1..Len(szs) :
                      szs[i].width > limit.width \/ szs[i].height > limit.height]

\* Lines 10-50 of pack.
Begin ==
    /\ pc = "start"
    /\ LET ms == ResolveMaxSize(sizes, config, build)
           chk == check_sizes(sizes, config, build)
       IN IF ms.panic
          THEN /\ pc' = "panic"
               /\ UNCHANGED <<max_size, sorted, x, y, message, result>>
          ELSE IF chk.panic
          THEN /\ pc' = "panic"
               /\ max_size' = ms.value
               /\ UNCHANGED <<sorted, x, y, message, result>>
          ELSE IF chk.err
          THEN /\ pc' = "err"
               /\ max_size' = ms.value
               /\ message' = "too_large"
               /\ result' = RectanglePackingResult(<<>>, Size(0, 0))
               /\ UNCHANGED <<sorted, x, y>>
          ELSE /\ pc' = "loop"
               /\ max_size' = ms.value
               /\ sorted' = sort_unstable(sizes)
               /\ x' = config.border_padding + config.rectangle_padding
               /\ y' = config.border_padding + config.rectangle_padding
               /\ UNCHANGED <<message, result>>
    /\ UNCHANGED <<sizes, config, build, next, largets_height, rectangles>>
    /\ UNCHANGED rectVars

\* ------------------------------------------------------------------- loop
\* A push that leaves out sizes of zero area.
PushNonEmpty(rects, px, py, size) ==
    IF size.width = 0 \/ size.height = 0 THEN rects
    ELSE Append(rects, from_size(px, py, size))

\* Line 83.
Push(rects, px, py, size) == Append(rects, from_size(px, py, size))

\* One iteration of the loop, lines 52-84, for the size `size`.
\* [outcome, x, y, largets_height, rectangles]
Place(size, cfg, ms, bld, cx, cy, lh, rects) ==
    LET rp == cfg.rectangle_padding
        bp == cfg.border_padding
        rawWLimit == ms.width - bp
        wraps == cx + size.width + rp > Wrap(rawWLimit)
        x1 == IF wraps THEN 0 ELSE cx
        y1 == IF wraps THEN cy + size.height + 2 * rp ELSE cy
        lh1 == IF wraps THEN 0 ELSE lh
        rawHLimit == ms.height - bp
        x2 == x1 + size.width + 2 * rp
        lh2 == IF size.height > lh1 THEN size.height ELSE lh1
    IN IF Overflows(rawWLimit) /\ bld = "debug"
       THEN [outcome |-> "panic", x |-> cx, y |-> cy,
             largets_height |-> lh, rectangles |-> rects]
       ELSE IF Overflows(rawHLimit) /\ bld = "debug"
       THEN [outcome |-> "panic", x |-> x1, y |-> y1,
             largets_height |-> lh1, rectangles |-> rects]
       ELSE IF y1 + size.height + rp > Wrap(rawHLimit)
       THEN [outcome |-> "err", x |-> x1, y |-> y1,
             largets_height |-> lh1, rectangles |-> rects]
       ELSE [outcome |-> "loop", x |-> x2, y |-> y1,
             largets_height |-> lh2, rectangles |-> Push(rects, x2, y1, size)]

\* The error value of lines 65-71.
PlacementError(cx, cy) == RectanglePackingResult(<<>>, Size(cx, cy))

PlaceNext ==
    /\ pc = "loop"
    /\ next <= Len(sorted)
    /\ LET r == Place(sorted[next], config, max_size, build,
                      x, y, largets_height, rectangles)
       IN /\ pc' = r.outcome
          /\ x' = r.x
          /\ y' = r.y
          /\ largets_height' = r.largets_height
          /\ rectangles' = r.rectangles
          /\ next' = IF r.outcome = "loop" THEN next + 1 ELSE next
          /\ message' = IF r.outcome = "err" THEN "no_fit" ELSE message
          /\ result' = IF r.outcome = "err" THEN PlacementError(r.x, r.y) ELSE result
    /\ UNCHANGED <<sizes, config, build, max_size, sorted>>
    /\ UNCHANGED rectVars

\* Lines 86-89.
Finish ==
    /\ pc = "loop"
    /\ next > Len(sorted)
    /\ pc' = "ok"
    /\ result' = RectanglePackingResult(rectangles, Size(x, y + largets_height))
    /\ UNCHANGED <<sizes, config, build, max_size, sorted, next, x, y,
                   largets_height, rectangles, message>>
    /\ UNCHANGED rectVars

Next == Begin \/ PlaceNext \/ Finish

\* ------------------------------------------------------ pack as a function
\* The loop of lines 52-84 run to its end on the sorted list srt, then the
\* Ok of lines 86-89.  [kind, result]
RECURSIVE PlaceAll(_, _, _, _, _, _, _, _)
PlaceAll(srt, cfg, ms, bld, cx, cy, lh, rects) ==
    IF srt = <<>>
    THEN [kind |-> "ok", result |-> RectanglePackingResult(rects, Size(cx, cy + lh))]
    ELSE LET r == Place(Head(srt), cfg, ms, bld, cx, cy, lh, rects)
         IN IF r.outcome = "panic" THEN [kind |-> "panic", result |-> NoResult]
            ELSE IF r.outcome = "err"
            THEN [kind |-> "err", result |-> PlacementError(r.x, r.y)]
            ELSE PlaceAll(Tail(srt), cfg, ms, bld, r.x, r.y, r.largets_height,
                          r.rectangles)

\* One whole call of pack: what it returns ("ok" or "err" with the
\* RectanglePackingResult), or "panic".
pack(szs, cfg, bld) ==
    LET ms == ResolveMaxSize(szs, cfg, bld)
        chk == check_sizes(szs, cfg, bld)
        start == cfg.border_padding + cfg.rectangle_padding
    IN IF ms.panic \/ chk.panic THEN [kind |-> "panic", result |-> NoResult]
       ELSE IF chk.err
       THEN [kind |-> "err", result |-> RectanglePackingResult(<<>>, Size(0, 0))]
       ELSE PlaceAll(sort_unstable(szs), cfg, ms.value, bld, start, start, 0, <<>>)

Spec == Init /\ [][Next]_vars

SpecDefault == InitDefault /\ [][Next]_vars

\* ------------------------------------------------------ Rectangle::intersects
Rectangles ==
    {Rectangle(px, py, w, h) :
        px \in 0..RectMaxPos, py \in 0..RectMaxPos,
        w \in 0..RectMaxDim, h \in 0..RectMaxDim}

\* Two rectangles are at hand and no pack is called.
InitRect ==
    /\ sizes = <<>>
    /\ config = DefaultConfig
    /\ build = "debug"
    /\ InitLocals
    /\ rect1 \in Rectangles
    /\ rect2 \in Rectangles
    /\ hit = None
    /\ hit_rev = None

\* rect1.intersects(&rect2)
Intersects ==
    /\ hit = None
    /\ hit' = Some(intersects(rect1, rect2))
    /\ UNCHANGED <<packVars, rect1, rect2, hit_rev>>

\* rect2.intersects(&rect1)
IntersectsRev ==
    /\ hit_rev = None
    /\ hit_rev' = Some(intersects(rect2, rect1))
    /\ UNCHANGED <<packVars, rect1, rect2, hit>>

NextRect == Intersects \/ IntersectsRev

SpecRect == InitRect /\ [][NextRect]_vars

\* ================================================================= claims
Returned == pc \in {"ok", "err", "panic"}

AllPositive(szs) == \A i \in 1..Len(szs) : szs[i].width > 0 /\ szs[i].height > 0

\* C1: in every successful result of pack on sizes of positive width and
\* height, no two rectangles at different indices intersect.
C1_NoOverlap ==
    (pc = "ok" /\ AllPositive(sizes)) =>
        \A i, j \in 1..Len(result.rectangles) :
            i # j => ~intersects(result.rectangles[i], result.rectangles[j])

\* C2: in every successful result every placed rectangle lies inside the
\* reported container size.
C2_InsideContainer ==
    pc = "ok" =>
        \A i \in 1..Len(result.rectangles) :
            LET r == result.rectangles[i]
            IN /\ r.x + r.width <= result.size.width
               /\ r.y + r.height <= result.size.height

\* C3: with max_size set, every rectangle of a successful result stays
\* inside the configured limit including padding.
C3_WithinMaxSize ==
    (pc = "ok" /\ IsSome(config.max_size)) =>
        \A i \in 1..Len(result.rectangles) :
            LET r == result.rectangles[i]
                rp == config.rectangle_padding
                bp == config.border_padding
            IN /\ r.x + r.width + rp <= Unwrap(config.max_size).width - bp
               /\ r.y + r.height + rp <= Unwrap(config.max_size).height - bp

\* C4: when pack fails in the placement pass, the error's partial result
\* holds exactly the rectangles placed before the failing one, in placement
\* order, and its size is the cursor (x, y) at the moment of failure.
C4_PartialResult ==
    (pc = "err" /\ message = "no_fit") =>
        /\ result.rectangles = rectangles
        /\ result.size = Size(x, y)

\* C5: pack on an empty input list succeeds for every config, returning
\* rectangles = [] and size = (border_padding + rectangle_padding,
\* border_padding + rectangle_padding).
C5_EmptyInput ==
    (sizes = <<>> /\ Returned) =>
        /\ pc = "ok"
        /\ result = RectanglePackingResult(<<>>,
                        Size(config.border_padding + config.rectangle_padding,
                             config.border_padding + config.rectangle_padding))

\* The subtractions of check_sizes, which every later subtraction of pack
\* follows, taken over the integers.
InteriorWidth(cfg) ==
    Unwrap(cfg.max_size).width - 2 * (cfg.border_padding + cfg.rectangle_padding)
InteriorHeight(cfg) ==
    Unwrap(cfg.max_size).height - 2 * (cfg.border_padding + cfg.rectangle_padding)

\* C6: pack never aborts, and once pack has run check_sizes no unsigned
\* subtraction of it has gone below zero.
C6_NeverAborts ==
    /\ pc # "panic"
    /\ (pc # "start" /\ IsSome(config.max_size)) =>
           /\ InteriorWidth(config) >= 0
           /\ InteriorHeight(config) >= 0
           /\ Unwrap(config.max_size).width - config.border_padding >= 0
           /\ Unwrap(config.max_size).height - config.border_padding >= 0

\* C7: with max_size set and some input size wider or taller than the
\* usable interior, pack returns the pre-flight error (no rectangles, size
\* (0,0)) without having placed anything; with max_size absent check_sizes
\* succeeds.
C7_PreflightRejection ==
    /\ (/\ pc # "start"
        /\ IsSome(config.max_size)
        /\ \E i \in 1..Len(sizes) :
               \/ sizes[i].width > InteriorWidth(config)
               \/ sizes[i].height > InteriorHeight(config))
       => /\ pc = "err"
          /\ message = "too_large"
          /\ result = RectanglePackingResult(<<>>, Size(0, 0))
          /\ rectangles = <<>>
    /\ ~IsSome(config.max_size) =>
          /\ ~check_sizes(sizes, config, build).err
          /\ ~check_sizes(sizes, config, build).panic

\* C8 as stated: with the default config, pack on [Size(4,2), Size(4,2)]
\* places both rectangles in a single row and the result's height is 2.
C8_SingleRow ==
    (config = DefaultConfig /\ sizes = <<Size(4, 2), Size(4, 2)>> /\ Returned) =>
        /\ pc = "ok"
        /\ Len(result.rectangles) = 2
        /\ result.rectangles[1].y = result.rectangles[2].y
        /\ result.size.height = 2

\* C8 amended: with the default config, pack on [Size(4,2), Size(4,2)]
\* succeeds with one rectangle per row, at (4,0) and (4,2), and the
\* result's size is (4,4): the heuristic row width is 4.
C8_TwoRows ==
    (config = DefaultConfig /\ sizes = <<Size(4, 2), Size(4, 2)>> /\ Returned) =>
        /\ pc = "ok"
        /\ max_size.width = 4
        /\ result.rectangles = <<Rectangle(4, 0, 4, 2), Rectangle(4, 2, 4, 2)>>
        /\ result.size = Size(4, 4)

C8_Witness ==
    config = DefaultConfig /\ sizes = <<Size(4, 2), Size(4, 2)>> /\ pc = "ok"

\* C9: whenever pack succeeds, the result has as many rectangles as the
\* input has sizes, zero-width and zero-height sizes included.
C9_CountPreserved ==
    pc = "ok" => Len(result.rectangles) = Len(sizes)

C9_Witness ==
    /\ pc = "ok"
    /\ Len(sizes) = 2
    /\ \E i, j \in 1..2 : sizes[i].width = 0 /\ sizes[j].height = 0
    /\ \E i \in 1..2 : sizes[i].width > 0

Dims(r) == Size(r.width, r.height)

\* s is ascending in the Size order: height first, width as tie-break.
Ascending(s) ==
    \A i \in 1..(Len(s) - 1) :
        \/ s[i].height < s[i + 1].height
        \/ s[i].height = s[i + 1].height /\ s[i].width <= s[i + 1].width

Occurrences(s, e) == Cardinality({i \in 1..Len(s) : s[i] = e})

PermutationsOf(s) ==
    {[i \in 1..Len(s) |-> s[f[i]]] :
        f \in {g \in [1..Len(s) -> 1..Len(s)] :
                  \A i, j \in 1..Len(s) : g[i] = g[j] => i = j}}

\* C11: for every list that is a permutation of the input and the same
\* config, pack yields the outcome it yields on the input: success with the
\* same rectangle sequence and size, or failure with the same partial
\* result (or the same panic).
C11_OrderingDeterminism ==
    Returned =>
        \A p \in PermutationsOf(sizes) :
            pack(p, config, build) = [kind |-> pc, result |-> result]

C11_Witness ==
    /\ pc = "ok"
    /\ Len(sizes) = 2
    /\ cmp(sizes[1], sizes[2]) = "Greater"
    /\ sizes[1].width > 0
    /\ sizes[2].width > 0

Min(a, b) == IF a <= b THEN a ELSE b

\* The open interiors ]x, x + width[ x ]y, y + height[ of a and b have a
\* point in common: on each axis the larger lower end is below the smaller
\* upper end.
OpenInteriorsOverlap(a, b) ==
    /\ Max(a.x, b.x) < Min(a.x + a.width, b.x + b.width)
    /\ Max(a.y, b.y) < Min(a.y + a.height, b.y + b.height)

\* One rectangle ends on an axis exactly where the other begins.
Touching(a, b) ==
    \/ a.x + a.width = b.x
    \/ b.x + b.width = a.x
    \/ a.y + a.height = b.y
    \/ b.y + b.height = a.y

PositiveArea(r) == r.width > 0 /\ r.height > 0

\* C12 as stated: for all rectangles, zero width or height included,
\* intersects is true exactly when the open interiors overlap on both
\* axes; rectangles that only touch do not intersect; intersects is
\* symmetric.
C12_OpenInteriors ==
    /\ hit # None => Unwrap(hit) = OpenInteriorsOverlap(rect1, rect2)
    /\ (hit # None /\ Touching(rect1, rect2)) => ~Unwrap(hit)
    /\ (hit # None /\ hit_rev # None) => hit = hit_rev

\* C12 amended: for rectangles of positive width and height, intersects is
\* true exactly when the open interiors overlap on both axes; for all
\* rectangles, those that only touch do not intersect and intersects is
\* symmetric.
C12_PositiveOpenInteriors ==
    /\ (hit # None /\ PositiveArea(rect1) /\ PositiveArea(rect2)) =>
           Unwrap(hit) = OpenInteriorsOverlap(rect1, rect2)
    /\ (hit # None /\ Touching(rect1, rect2)) => ~Unwrap(hit)
    /\ (hit # None /\ hit_rev # None) => hit = hit_rev

C12_Witness ==
    /\ hit = Some(TRUE)
    /\ hit_rev = Some(TRUE)
    /\ PositiveArea(rect1)
    /\ PositiveArea(rect2)
    /\ rect1 # rect2

====
